---- MODULE Spec2Model ----
\* A model of the CHIP-8 CPU core of scottjab/go-chip8: the machine state
\* (type CPU), the decode/dispatch engine (CPU.dispatch), the graphics buffer
\* (type Graphics), the keypad (TermboxKeypad, NullKeypad) and the clocked
\* execution loop with its stop channel (CPU.Run, CPU.Stop).
EXTENDS Integers, Sequences, FiniteSets, TLC

\* ------------------------------------------------------------------ sizes

MemorySize == 4096
NumRegisters == 16
StackSize == 16
GraphicsWidth == 64
GraphicsHeight == 32
FontSize == 80
LoadOffset == 512

Uint16Mod == 65536

\* ------------------------------------------------------- integer helpers

\* Go's byte(v) conversion and byte arithmetic: the value modulo 2^8.
ToByte(v) == v % 256

\* Go's uint16 arithmetic: the value modulo 2^16.
ToUint16(v) == v % Uint16Mod

RECURSIVE BitAnd(_, _)
\* a & b on naturals.
BitAnd(a, b) ==
    IF a = 0 \/ b = 0 THEN 0
    ELSE (a % 2) * (b % 2) + 2 * BitAnd(a \div 2, b \div 2)

RECURSIVE BitOr(_, _)
\* a | b on naturals.
BitOr(a, b) ==
    IF a = 0 THEN b
    ELSE IF b = 0 THEN a
    ELSE (IF a % 2 = 1 \/ b % 2 = 1 THEN 1 ELSE 0) + 2 * BitOr(a \div 2, b \div 2)

RECURSIVE BitXor(_, _)
\* a ^ b on naturals.
BitXor(a, b) ==
    IF a = 0 THEN b
    ELSE IF b = 0 THEN a
    ELSE ((a + b) % 2) + 2 * BitXor(a \div 2, b \div 2)

\* a >> n on naturals.
Shr(a, n) == a \div (2 ^ n)

\* ------------------------------------------------------------------ font

FONT ==
    << 240, 144, 144, 144, 240,
       32, 96, 32, 32, 112,
       240, 16, 240, 128, 240,
       240, 16, 240, 16, 240,
       144, 144, 240, 16, 16,
       240, 128, 240, 16, 240,
       240, 128, 240, 144, 240,
       240, 16, 32, 64, 64,
       240, 144, 240, 144, 240,
       240, 144, 240, 16, 240,
       240, 144, 240, 144, 144,
       224, 144, 224, 144, 224,
       240, 128, 128, 128, 240,
       224, 144, 144, 144, 224,
       240, 128, 240, 128, 240,
       240, 128, 240, 128, 128 >>

\* ---------------------------------------------------------------- errors

\* The values of Go's error results. Opcode is meaningful for UnknownOpcode
\* only. "panic" is not an error value: it marks a run-time panic raised in
\* the middle of the call (index out of range, slice bounds out of range).
NoError == [kind |-> "nil", Opcode |-> 0]
ErrQuit == [kind |-> "ErrQuit", Opcode |-> 0]
UnknownOpcode(opcode) == [kind |-> "UnknownOpcode", Opcode |-> opcode]
KeypadError == [kind |-> "KeypadError", Opcode |-> 0]
UnknownKeyError == [kind |-> "UnknownKey", Opcode |-> 0]
NullKeypadError == [kind |-> "NullKeypad", Opcode |-> 0]
Panic == [kind |-> "panic", Opcode |-> 0]

\* ------------------------------------------------------------- the machine

\* NewCPU(options) with non-nil options: the zero value of CPU with the
\* program counter at 0x200 and the font copied to Memory[0..79]. Keypad is
\* the Keypad field: "nil" (DefaultKeypad is used) or "termbox".
NewCPU ==
    [ Memory |-> [a \in 0..(MemorySize - 1) |-> IF a < FontSize THEN FONT[a + 1] ELSE 0],
      V |-> [r \in 0..(NumRegisters - 1) |-> 0],
      I |-> 0,
      ProgramCounter |-> LoadOffset,
      Stack |-> [s \in 0..(StackSize - 1) |-> 0],
      StackPointer |-> 0,
      Pixels |-> [p \in 0..(GraphicsWidth * GraphicsHeight - 1) |-> 0],
      DelayTimer |-> 0,
      SoundTimer |-> 0,
      Keypad |-> "nil" ]

\* A dispatch outcome: the machine as the call left it, and the error.
Outcome(c, err) == [c |-> c, err |-> err]

\* c.ProgramCounter += 2
Advance(c) == [c EXCEPT !.ProgramCounter = ToUint16(@ + 2)]

\* ------------------------------------------------------------- graphics

\* The addresses Graphics.EachPixel yields to fn.
EachPixelAddrs ==
    { y * GraphicsWidth + x : y \in 0..((GraphicsHeight - 1) - 1),
                              x \in 0..((GraphicsWidth - 1) - 1) }

\* Graphics.Clear: zero every pixel EachPixel visits.
Clear(pixels) ==
    [a \in DOMAIN pixels |-> IF a \in EachPixelAddrs THEN 0 ELSE pixels[a]]

\* Graphics.Set: XOR one pixel; collision iff the pixel was 1 before. The
\* address is computed in uint16; an address outside Pixels panics.
Set(pixels, x, y, on) ==
    LET a == ToUint16(x + y * GraphicsWidth)
    IN IF a > GraphicsWidth * GraphicsHeight - 1
       THEN [Pixels |-> pixels, collision |-> FALSE, panicked |-> TRUE]
       ELSE [Pixels |-> [pixels EXCEPT ![a] = BitXor(@, IF on THEN 1 ELSE 0)],
             collision |-> pixels[a] = 1,
             panicked |-> FALSE]

RECURSIVE WriteSpriteFrom(_, _, _, _, _)
\* The loops of Graphics.WriteSprite from iteration k = 8 * yl + xl on, g the
\* buffer, the collision result and the panic flag so far.
WriteSpriteFrom(g, sprite, x, y, k) ==
    IF k >= 8 * Len(sprite) \/ g.panicked THEN g
    ELSE LET yl == k \div 8
             xl == k % 8
             r == sprite[yl + 1]
             i == Shr(128, ToByte(xl))
             on == BitAnd(r, ToByte(i)) = ToByte(i)
             xs == ToUint16(x + xl)
             xp == IF xs >= GraphicsWidth THEN xs - GraphicsWidth ELSE xs
             ys == ToUint16(y + yl)
             yp == IF ys >= GraphicsHeight THEN ys - GraphicsHeight ELSE ys
             s == Set(g.Pixels, xp, yp, on)
         IN WriteSpriteFrom([Pixels |-> s.Pixels,
                             collision |-> g.collision \/ s.collision,
                             panicked |-> s.panicked],
                            sprite, x, y, k + 1)

\* Graphics.WriteSprite(sprite, x, y).
WriteSprite(pixels, sprite, x, y) ==
    WriteSpriteFrom([Pixels |-> pixels, collision |-> FALSE, panicked |-> FALSE],
                    sprite, x, y, 0)

\* --------------------------------------------------------------- keypad

\* A result of Keypad.GetKey: (byte, error).
KeyResult(b, err) == [b |-> b, err |-> err]

keyMap ==
    ("1" :> 1) @@ ("2" :> 2) @@ ("3" :> 3) @@ ("4" :> 12) @@
    ("q" :> 4) @@ ("w" :> 5) @@ ("e" :> 6) @@ ("r" :> 13) @@
    ("a" :> 7) @@ ("s" :> 8) @@ ("d" :> 9) @@ ("f" :> 14) @@
    ("z" :> 10) @@ ("x" :> 0) @@ ("c" :> 11) @@ ("v" :> 15)

escapeKey == "0"

\* TermboxKeypad.GetKey once PollEvent has returned an event with Ch = ch.
TermboxGetKey(ch) ==
    IF ch = escapeKey THEN KeyResult(0, ErrQuit)
    ELSE IF ch \in DOMAIN keyMap THEN KeyResult(keyMap[ch], NoError)
    ELSE KeyResult(0, UnknownKeyError)

\* NullKeypad.GetKey.
NullKeypad == KeyResult(0, NullKeypadError)

\* c.keypad().GetKey() when the event delivered (if any is needed) is ch.
GetKey(c, ch) == IF c.Keypad = "nil" THEN NullKeypad ELSE TermboxGetKey(ch)

\* CPU.getKey: the quit sentinel passes through, any other error is wrapped.
getKey(kr) ==
    IF kr.err = NoError THEN kr
    ELSE IF kr.err = ErrQuit THEN KeyResult(kr.b, ErrQuit)
    ELSE KeyResult(kr.b, KeypadError)

\* ------------------------------------------------------ opcode fields

\* (opcode & 0x0F00) >> 8
FieldX(opcode) == Shr(BitAnd(opcode, 3840), 8)

\* (opcode & 0x00F0) >> 4
FieldY(opcode) == Shr(BitAnd(opcode, 240), 4)

\* opcode & 0x0FFF
FieldNNN(opcode) == BitAnd(opcode, 4095)

\* byte(opcode)
FieldNN(opcode) == ToByte(opcode)

\* opcode & 0x000F
FieldN(opcode) == BitAnd(opcode, 15)

\* ------------------------------------------------ dispatch, case by case

\* 00E0: clear the display.
Op00E0(c) == Outcome(Advance([c EXCEPT !.Pixels = Clear(@)]), NoError)

\* 00EE: return from subroutine. Stack[StackPointer] panics when the pointer
\* is outside the array; StackPointer-- is byte arithmetic.
Op00EE(c) ==
    IF c.StackPointer > StackSize - 1 THEN Outcome(c, Panic)
    ELSE Outcome([c EXCEPT !.ProgramCounter = ToUint16(c.Stack[c.StackPointer] + 2),
                           !.StackPointer = ToByte(c.StackPointer + 255)],
                 NoError)

\* 1NNN: jump.
Op1NNN(c, opcode) == Outcome([c EXCEPT !.ProgramCounter = FieldNNN(opcode)], NoError)

\* Op2NNN storing the address of the next instruction instead of the call
\* site's.
Op2NNNPushNext(c, opcode) ==
    LET sp == ToByte(c.StackPointer + 1)
    IN IF sp > StackSize - 1
       THEN [c |-> [c EXCEPT !.StackPointer = sp], err |-> Panic]
       ELSE [c |-> [c EXCEPT !.StackPointer = sp,
                             !.Stack[sp] = ToUint16(c.ProgramCounter + 2),
                             !.ProgramCounter = BitAnd(opcode, 4095)],
             err |-> NoError]

\* 2NNN: call. The pointer is incremented (byte arithmetic) before the store,
\* which panics when the pointer is outside the array.
Op2NNN(c, opcode) ==
    LET sp == ToByte(c.StackPointer + 1)
    IN IF sp > StackSize - 1
       THEN Outcome([c EXCEPT !.StackPointer = sp], Panic)
       ELSE Outcome([c EXCEPT !.StackPointer = sp,
                              !.Stack[sp] = c.ProgramCounter,
                              !.ProgramCounter = FieldNNN(opcode)],
                    NoError)

\* 3XNN: skip if VX = NN.
Op3XNN(c, opcode) ==
    LET c1 == Advance(c)
    IN Outcome(IF c.V[FieldX(opcode)] = FieldNN(opcode) THEN Advance(c1) ELSE c1, NoError)

\* 4XNN: skip if VX # NN.
Op4XNN(c, opcode) ==
    LET c1 == Advance(c)
    IN Outcome(IF c.V[FieldX(opcode)] # FieldNN(opcode) THEN Advance(c1) ELSE c1, NoError)

\* 5XY0: skip if VX = VY, with y := (opcode & 0x00F0) >> 8.
Op5XY0(c, opcode) ==
    LET x == FieldX(opcode)
        y == Shr(BitAnd(opcode, 240), 8)
        c1 == Advance(c)
    IN Outcome(IF c.V[x] = c.V[y] THEN Advance(c1) ELSE c1, NoError)

\* 6XNN: VX = NN.
Op6XNN(c, opcode) ==
    Outcome([Advance(c) EXCEPT !.V[FieldX(opcode)] = FieldNN(opcode)], NoError)

\* 7XNN: VX += NN.
Op7XNN(c, opcode) ==
    Outcome(Advance([c EXCEPT !.V[FieldX(opcode)] = ToByte(@ + FieldNN(opcode))]), NoError)

\* 8XY0: VX = VY.
Op8XY0(c, x, y) == Outcome(Advance([c EXCEPT !.V[x] = c.V[y]]), NoError)

\* 8XY1: VX = VY | VX.
Op8XY1(c, x, y) == Outcome(Advance([c EXCEPT !.V[x] = BitOr(c.V[y], c.V[x])]), NoError)

\* 8XY2: VX = VY & VX.
Op8XY2(c, x, y) == Outcome(Advance([c EXCEPT !.V[x] = BitAnd(c.V[y], c.V[x])]), NoError)

\* 8XY3: VX = VY ^ VX.
Op8XY3(c, x, y) == Outcome(Advance([c EXCEPT !.V[x] = BitXor(c.V[y], c.V[x])]), NoError)

\* Op8XY4 with the carry test off by one (result >= 0xFF).
Op8XY4CarryOffByOne(c, x, y) ==
    LET result == ToUint16(c.V[x] + c.V[y])
        cf == IF result >= 255 THEN 1 ELSE 0
        v1 == [c.V EXCEPT ![15] = cf]
        v2 == [v1 EXCEPT ![x] = ToByte(result)]
    IN [c |-> [c EXCEPT !.V = v2, !.ProgramCounter = ToUint16(@ + 2)], err |-> NoError]

\* 8XY4: add with carry. The flag is stored first, the sum second.
Op8XY4(c, x, y) ==
    LET result == ToUint16(c.V[x] + c.V[y])
        cf == IF result > 255 THEN 1 ELSE 0
        v1 == [c.V EXCEPT ![15] = cf]
        v2 == [v1 EXCEPT ![x] = ToByte(result)]
    IN Outcome(Advance([c EXCEPT !.V = v2]), NoError)

\* 8XY5: subtract. The flag is stored first; the difference is then computed
\* from the registers as they are after that store.
Op8XY5(c, x, y) ==
    LET cf == IF c.V[x] > c.V[y] THEN 1 ELSE 0
        v1 == [c.V EXCEPT ![15] = cf]
        v2 == [v1 EXCEPT ![x] = ToByte(v1[x] + 256 - v1[y])]
    IN Outcome(Advance([c EXCEPT !.V = v2]), NoError)

\* 8XY6: shift right.
Op8XY6(c, x, y) ==
    LET cf == IF BitAnd(c.V[x], 1) = 1 THEN 1 ELSE 0
        v1 == [c.V EXCEPT ![15] = cf]
        v2 == [v1 EXCEPT ![x] = v1[x] \div 2]
    IN Outcome(Advance([c EXCEPT !.V = v2]), NoError)

\* 8XY7: VX = VY - VX.
Op8XY7(c, x, y) ==
    LET cf == IF c.V[y] > c.V[x] THEN 1 ELSE 0
        v1 == [c.V EXCEPT ![15] = cf]
        v2 == [v1 EXCEPT ![x] = ToByte(v1[y] + 256 - v1[x])]
    IN Outcome(Advance([c EXCEPT !.V = v2]), NoError)

\* 8XYE: shift left.
Op8XYE(c, x, y) ==
    LET cf == IF BitAnd(c.V[x], 128) = 128 THEN 1 ELSE 0
        v1 == [c.V EXCEPT ![15] = cf]
        v2 == [v1 EXCEPT ![x] = ToByte(v1[x] * 2)]
    IN Outcome(Advance([c EXCEPT !.V = v2]), NoError)

\* case 0x8000: the inner switch has no default; an opcode whose low nibble
\* matches no case leaves the switch and dispatch returns nil.
Op8XYN(c, opcode) ==
    LET x == FieldX(opcode)
        y == FieldY(opcode)
        n == FieldN(opcode)
    IN CASE n = 0 -> Op8XY0(c, x, y)
         [] n = 1 -> Op8XY1(c, x, y)
         [] n = 2 -> Op8XY2(c, x, y)
         [] n = 3 -> Op8XY3(c, x, y)
         [] n = 4 -> Op8XY4(c, x, y)
         [] n = 5 -> Op8XY5(c, x, y)
         [] n = 6 -> Op8XY6(c, x, y)
         [] n = 7 -> Op8XY7(c, x, y)
         [] n = 14 -> Op8XYE(c, x, y)
         [] OTHER -> Outcome(c, NoError)

\* 9XY0: skip if VX # VY.
Op9XY0(c, opcode) ==
    LET c1 == Advance(c)
    IN IF FieldN(opcode) = 0
       THEN Outcome(IF c.V[FieldX(opcode)] # c.V[FieldY(opcode)] THEN Advance(c1) ELSE c1,
                    NoError)
       ELSE Outcome(c, UnknownOpcode(opcode))

\* ANNN: I = NNN.
OpANNN(c, opcode) == Outcome(Advance([c EXCEPT !.I = FieldNNN(opcode)]), NoError)

\* BNNN: jump to NNN + V0.
OpBNNN(c, opcode) ==
    Outcome([c EXCEPT !.ProgramCounter = ToUint16(FieldNNN(opcode) + c.V[0])], NoError)

\* CXNN: VX = kk + byte(rand.Intn(255)), r the value Intn returned.
OpCXNN(c, opcode, r) ==
    Outcome(Advance([c EXCEPT !.V[FieldX(opcode)] = ToByte(FieldNN(opcode) + ToByte(r))]),
            NoError)

\* DXYN: draw. The slice Memory[I : I+n] panics when its bounds are out of
\* range; WriteSprite panics when a pixel address is.
OpDXYN(c, opcode) ==
    LET x == c.V[FieldX(opcode)]
        y == c.V[FieldY(opcode)]
        n == FieldN(opcode)
        hi == ToUint16(c.I + n)
    IN IF hi > MemorySize \/ c.I > hi THEN Outcome(c, Panic)
       ELSE LET sprite == [k \in 1..n |-> c.Memory[c.I + k - 1]]
                w == WriteSprite(c.Pixels, sprite, x, y)
                c1 == [c EXCEPT !.Pixels = w.Pixels]
            IN IF w.panicked THEN Outcome(c1, Panic)
               ELSE Outcome(Advance([c1 EXCEPT !.V[15] = IF w.collision THEN 1 ELSE 0]),
                            NoError)

\* EX9E after c.ProgramCounter += 2, from the call of getKey on; kr is what
\* the keypad's GetKey returned.
OpEX9EAfterKey(c1, opcode, kr) ==
    LET k == getKey(kr)
    IN IF k.err # NoError THEN Outcome(c1, k.err)
       ELSE Outcome(IF c1.V[FieldX(opcode)] = k.b THEN Advance(c1) ELSE c1, NoError)

\* EX9E: skip if the key in VX is pressed.
OpEX9E(c, opcode, kr) == OpEX9EAfterKey(Advance(c), opcode, kr)

\* EXA1 after c.ProgramCounter += 2, from the call of getKey on.
OpEXA1AfterKey(c1, opcode, kr) ==
    LET k == getKey(kr)
    IN IF k.err # NoError THEN Outcome(c1, k.err)
       ELSE Outcome(IF c1.V[FieldX(opcode)] # k.b THEN Advance(c1) ELSE c1, NoError)

\* EXA1: skip if the key in VX is not pressed.
OpEXA1(c, opcode, kr) == OpEXA1AfterKey(Advance(c), opcode, kr)

\* FX07: VX = delay timer.
OpFX07(c, opcode) == Outcome(Advance([c EXCEPT !.V[FieldX(opcode)] = c.DelayTimer]), NoError)

\* FX0A: wait for a key, store it in VX. getKey is the first statement.
OpFX0A(c, opcode, kr) ==
    LET k == getKey(kr)
    IN IF k.err # NoError THEN Outcome(c, k.err)
       ELSE Outcome(Advance([c EXCEPT !.V[FieldX(opcode)] = k.b]), NoError)

\* FX15: delay timer = VX.
OpFX15(c, opcode) == Outcome(Advance([c EXCEPT !.DelayTimer = c.V[FieldX(opcode)]]), NoError)

\* FX18: sound timer = VX.
OpFX18(c, opcode) == Outcome(Advance([c EXCEPT !.SoundTimer = c.V[FieldX(opcode)]]), NoError)

\* FX1E: I += VX.
OpFX1E(c, opcode) ==
    Outcome(Advance([c EXCEPT !.I = ToUint16(@ + c.V[FieldX(opcode)])]), NoError)

\* FX29: I = VX * 5.
OpFX29(c, opcode) ==
    Outcome(Advance([c EXCEPT !.I = ToUint16(c.V[FieldX(opcode)] * 5)]), NoError)

RECURSIVE StoreFrom(_, _, _, _)
\* The stores Memory[I + k] = vals[k + 1], ... in order, the address in uint16;
\* a store outside Memory panics and leaves the earlier stores done.
StoreFrom(m, i, vals, k) ==
    IF k >= Len(vals) \/ m.panicked THEN m
    ELSE LET a == ToUint16(i + k)
         IN IF a > MemorySize - 1
            THEN [Memory |-> m.Memory, panicked |-> TRUE]
            ELSE StoreFrom([Memory |-> [m.Memory EXCEPT ![a] = vals[k + 1]],
                            panicked |-> FALSE],
                           i, vals, k + 1)

\* FX33: the decimal digits of VX to Memory[I], Memory[I+1], Memory[I+2].
OpFX33(c, opcode) ==
    LET vx == c.V[FieldX(opcode)]
        m == StoreFrom([Memory |-> c.Memory, panicked |-> FALSE], c.I,
                       << vx \div 100, (vx \div 10) % 10, (vx % 100) % 10 >>, 0)
        c1 == [c EXCEPT !.Memory = m.Memory]
    IN IF m.panicked THEN Outcome(c1, Panic) ELSE Outcome(Advance(c1), NoError)

\* FX55: V0..VX to memory at I.
OpFX55(c, opcode) ==
    LET x == FieldX(opcode)
        m == StoreFrom([Memory |-> c.Memory, panicked |-> FALSE], c.I,
                       [k \in 1..(x + 1) |-> c.V[k - 1]], 0)
        c1 == [c EXCEPT !.Memory = m.Memory]
    IN IF m.panicked THEN Outcome(c1, Panic) ELSE Outcome(Advance(c1), NoError)

RECURSIVE LoadFrom(_, _, _, _, _)
\* The loads V[k] = Memory[I + k], ... up to V[x], the address in uint16; a
\* load outside Memory panics and leaves the earlier loads done.
LoadFrom(v, mem, i, x, k) ==
    IF k > x \/ v.panicked THEN v
    ELSE LET a == ToUint16(i + k)
         IN IF a > MemorySize - 1
            THEN [V |-> v.V, panicked |-> TRUE]
            ELSE LoadFrom([V |-> [v.V EXCEPT ![k] = mem[a]], panicked |-> FALSE],
                          mem, i, x, k + 1)

\* FX65: V0..VX from memory at I.
OpFX65(c, opcode) ==
    LET v == LoadFrom([V |-> c.V, panicked |-> FALSE], c.Memory, c.I, FieldX(opcode), 0)
        c1 == [c EXCEPT !.V = v.V]
    IN IF v.panicked THEN Outcome(c1, Panic) ELSE Outcome(Advance(c1), NoError)

\* case 0xE000.
OpEXNN(c, opcode, kr) ==
    LET nn == BitAnd(opcode, 255)
    IN CASE nn = 158 -> OpEX9E(c, opcode, kr)
         [] nn = 161 -> OpEXA1(c, opcode, kr)
         [] OTHER -> Outcome(c, UnknownOpcode(opcode))

\* case 0xF000.
OpFXNN(c, opcode, kr) ==
    LET nn == BitAnd(opcode, 255)
    IN CASE nn = 7 -> OpFX07(c, opcode)
         [] nn = 10 -> OpFX0A(c, opcode, kr)
         [] nn = 21 -> OpFX15(c, opcode)
         [] nn = 24 -> OpFX18(c, opcode)
         [] nn = 30 -> OpFX1E(c, opcode)
         [] nn = 41 -> OpFX29(c, opcode)
         [] nn = 51 -> OpFX33(c, opcode)
         [] nn = 85 -> OpFX55(c, opcode)
         [] nn = 101 -> OpFX65(c, opcode)
         [] OTHER -> Outcome(c, UnknownOpcode(opcode))

\* case 0x0000.
Op0NNN(c, opcode) ==
    CASE opcode = 224 -> Op00E0(c)
      [] opcode = 238 -> Op00EE(c)
      [] OTHER -> Outcome(c, UnknownOpcode(opcode))

\* CPU.dispatch(opcode): kr is what the keypad's GetKey returns if the opcode
\* calls it, r what rand.Intn(255) returns if the opcode calls it.
dispatch(c, opcode, kr, r) ==
    LET class == BitAnd(opcode, 61440)
    IN CASE class = 0 -> Op0NNN(c, opcode)
         [] class = 4096 -> Op1NNN(c, opcode)
         [] class = 8192 -> Op2NNN(c, opcode)
         [] class = 12288 -> Op3XNN(c, opcode)
         [] class = 16384 -> Op4XNN(c, opcode)
         [] class = 20480 -> Op5XY0(c, opcode)
         [] class = 24576 -> Op6XNN(c, opcode)
         [] class = 28672 -> Op7XNN(c, opcode)
         [] class = 32768 -> Op8XYN(c, opcode)
         [] class = 36864 -> Op9XY0(c, opcode)
         [] class = 40960 -> OpANNN(c, opcode)
         [] class = 45056 -> OpBNNN(c, opcode)
         [] class = 49152 -> OpCXNN(c, opcode, r)
         [] class = 53248 -> OpDXYN(c, opcode)
         [] class = 57344 -> OpEXNN(c, opcode, kr)
         [] class = 61440 -> OpFXNN(c, opcode, kr)
         [] OTHER -> Outcome(c, UnknownOpcode(opcode))

\* Whether dispatch(opcode) calls getKey.
CallsGetKey(opcode) ==
    \/ BitAnd(opcode, 61440) = 57344 /\ BitAnd(opcode, 255) \in {158, 161}
    \/ BitAnd(opcode, 61440) = 61440 /\ BitAnd(opcode, 255) = 10

\* CPU.decodeOp: the big-endian word at the program counter; panics when an
\* index is outside Memory.
decodeOp(c) ==
    LET hi == c.ProgramCounter
        lo == ToUint16(c.ProgramCounter + 1)
    IN IF hi > MemorySize - 1 \/ lo > MemorySize - 1
       THEN [opcode |-> 0, panicked |-> TRUE]
       ELSE [opcode |-> BitOr(ToUint16(c.Memory[hi] * 256), c.Memory[lo]),
             panicked |-> FALSE]

\* TimerDecay with the cue given on every cycle the sound timer is running.
TimerDecayCueWhileSounding(c) ==
    [ c |-> [c EXCEPT !.DelayTimer = IF @ > 0 THEN @ - 1 ELSE @,
                      !.SoundTimer = IF @ > 0 THEN @ - 1 ELSE @],
      beep |-> c.SoundTimer > 0 ]

\* CPU.emulateCycle after a successful dispatch: the timers decay; beep is
\* whether fmt.Print('\a') ran.
TimerDecay(c) ==
    [ c |-> [c EXCEPT !.DelayTimer = IF @ > 0 THEN @ - 1 ELSE @,
                      !.SoundTimer = IF @ > 0 THEN @ - 1 ELSE @],
      beep |-> c.SoundTimer = 1 ]

\* CPU.emulateCycle from the return of dispatch on: a failed dispatch returns
\* before the timers are touched.
AfterDispatch(o) ==
    IF o.err # NoError THEN [c |-> o.c, err |-> o.err, beep |-> FALSE]
    ELSE [c |-> TimerDecay(o.c).c, err |-> NoError, beep |-> TimerDecay(o.c).beep]

\* RunReturn without the test for the quit sentinel.
RunReturnNoQuitTest(err) == err

\* The value CPU.Run returns when emulateCycle returned the error err.
RunReturn(err) == IF err = ErrQuit THEN NoError ELSE err

\* ------------------------------------------------------------ the state

VARIABLES
    c,            \* the CPU struct
    pc,           \* where the caller is: "ready"/"dispatched" for a direct call
                  \* of dispatch; "new", "select", "getKey", "returned",
                  \* "panicked" for main and Run
    opcode,       \* the opcode of the last dispatch
    err,          \* what the last dispatch returned
    key,          \* what the last GetKey returned
    rnd,          \* what the last rand.Intn(255) returned
    runErr,       \* what Run returned
    stopClosed,   \* whether the stop channel is closed
    stopCalls,    \* the number of calls of Stop so far
    tickPending,  \* whether the Clock channel holds a tick
    cycles,       \* the number of calls of dispatch so far
    beeps,        \* the number of times the cue was printed
    loaded,       \* the load calls made, and the last one: its offset, its
                  \* source bytes, and the count and the error it returned
    panic,        \* "" or the run-time panic that ended the process
    frames        \* history: the open calls, innermost first, each with its
                  \* call site and the stack pointer before the call

vars ==
    << c, pc, opcode, err, key, rnd, runErr, stopClosed, stopCalls, tickPending,
       cycles, beeps, loaded, panic, frames >>

\* The history of open calls after dispatch(opcode) took the machine from c
\* to outcome o: a call that stored its return address opens a frame, a
\* return that read one closes the innermost.
Frames(fr, c0, op, o) ==
    IF o.err # NoError THEN fr
    ELSE IF BitAnd(op, 61440) = 8192
         THEN << [site |-> c0.ProgramCounter, sp |-> c0.StackPointer] >> \o fr
    ELSE IF op = 238 /\ fr # << >> THEN Tail(fr)
    ELSE fr

\* The state common to every initial state: nothing has run yet.
Idle ==
    /\ opcode = 0
    /\ err = NoError
    /\ key = KeyResult(0, NoError)
    /\ rnd = 0
    /\ runErr = NoError
    /\ stopClosed = FALSE
    /\ stopCalls = 0
    /\ tickPending = FALSE
    /\ cycles = 0
    /\ beeps = 0
    /\ loaded = [calls |-> 0, offset |-> 0, src |-> << >>, n |-> 0, err |-> NoError]
    /\ panic = ""
    /\ frames = << >>

\* ------------------------------------------------ inputs of the checks

\* How far the sampled byte values reach in from 0 and from 255.
ByteEdge == 1

ByteSamples == (0..ByteEdge) \cup {44, 100, 200} \cup ((255 - ByteEdge)..255)

RegSamples == {0, 1, 15}

\* Characters termbox.PollEvent may deliver: the escape key, mapped keys, an
\* unmapped key.
EventChars == {"0", "1", "x", "v", "p"}

\* Values rand.Intn(255) may return.
RandSamples == {0, 1, 5, 170, 254}

\* The event characters that matter to dispatch(op): one when GetKey is not
\* called.
KeyInputs(op) == IF CallsGetKey(op) THEN EventChars ELSE {"x"}

\* The random values that matter to dispatch(op): one when Intn is not called.
RandInputs(op) == IF BitAnd(op, 61440) = 49152 THEN RandSamples ELSE {0}

\* -------------------------------------------- a direct call of dispatch

\* One call c.dispatch(op) for an op of ops, on the machine as it is.
Call(ops) ==
    /\ pc = "ready"
    /\ \E op \in ops : \E ch \in KeyInputs(op) : \E r \in RandInputs(op) :
         LET kr == GetKey(c, ch)
             o == dispatch(c, op, kr, r)
         IN /\ c' = o.c
            /\ opcode' = op
            /\ err' = o.err
            /\ key' = IF CallsGetKey(op) THEN kr ELSE key
            /\ rnd' = r
            /\ frames' = Frames(frames, c, op, o)
    /\ pc' = "dispatched"
    /\ cycles' = cycles + 1
    /\ UNCHANGED << runErr, stopClosed, stopCalls, tickPending, beeps, loaded, panic >>

\* Every opcode with X in RegSamples, any class and any low byte.
DecodeOpcodes ==
    { t * 4096 + x * 256 + nn : t \in 0..15, x \in RegSamples, nn \in 0..255 }

InitDecode ==
    /\ \E k \in {"nil", "termbox"} : c = [NewCPU EXCEPT !.Keypad = k]
    /\ pc = "ready"
    /\ Idle

NextDecode == Call(DecodeOpcodes)

\* dispatch called once with any opcode of DecodeOpcodes on a new machine.
SpecDecode == InitDecode /\ [][NextDecode]_vars

\* Register files with V0, V1, VF drawn from ByteSamples, the rest 0.
RegFiles ==
    { [r \in 0..(NumRegisters - 1) |->
         IF r = 0 THEN a ELSE IF r = 1 THEN b ELSE IF r = 15 THEN f ELSE 0] :
      a \in ByteSamples, b \in ByteSamples, f \in ByteSamples }

\* 5XY0, 8XY4, 8XY5 with X, Y in RegSamples; CXNN with X in RegSamples and NN
\* in ByteSamples.
AluOpcodes ==
    { t * 4096 + x * 256 + y * 16 + n :
        t \in {8}, x \in RegSamples, y \in RegSamples, n \in {4, 5} }
    \cup { 5 * 4096 + x * 256 + y * 16 : x \in RegSamples, y \in RegSamples }
    \cup { 12 * 4096 + x * 256 + nn : x \in RegSamples, nn \in ByteSamples }

InitAlu ==
    /\ \E v \in RegFiles : c = [NewCPU EXCEPT !.V = v]
    /\ pc = "ready"
    /\ Idle

NextAlu == Call(AluOpcodes)

\* dispatch called once with an arithmetic, skip or random opcode on a
\* machine whose registers hold sampled values.
SpecAlu == InitAlu /\ [][NextAlu]_vars

\* Pixel buffers: all off, all on, and one pixel on at a corner of the grid.
PixelPatterns ==
    { [a \in 0..(GraphicsWidth * GraphicsHeight - 1) |-> v] : v \in {0, 1} }
    \cup { [a \in 0..(GraphicsWidth * GraphicsHeight - 1) |-> IF a = p THEN 1 ELSE 0] :
           p \in { 0, GraphicsWidth - 1, (GraphicsHeight - 1) * GraphicsWidth,
                   GraphicsWidth * GraphicsHeight - 1 } }

\* Start coordinates held in V0 (x) and V1 (y).
XSamples == {0, 56, 60, 63, 64, 255}

YSamples == {0, 28, 31, 32, 255}

\* 00E0, and D01N drawing N rows of the sprite at I at (V0, V1).
GraphicsOpcodes == {224} \cup { 13 * 4096 + 16 + n : n \in {0, 1, 5, 15} }

InitGraphics ==
    /\ \E px \in PixelPatterns : \E x \in XSamples : \E y \in YSamples :
         c = [NewCPU EXCEPT !.Pixels = px, !.V[0] = x, !.V[1] = y]
    /\ pc = "ready"
    /\ Idle

NextGraphics == Call(GraphicsOpcodes)

\* dispatch called once with a clear or draw opcode on a machine whose pixel
\* buffer and coordinate registers hold sampled values; I = 0, the font.
SpecGraphics == InitGraphics /\ [][NextGraphics]_vars

\* The number of dispatch calls in a sequence of direct calls.
MaxCalls == 4

\* After a direct call that returned without error, the caller may call
\* again, up to MaxCalls calls.
Again ==
    /\ pc = "dispatched"
    /\ err = NoError
    /\ cycles < MaxCalls
    /\ pc' = "ready"
    /\ UNCHANGED << c, opcode, err, key, rnd, runErr, stopClosed, stopCalls,
                    tickPending, cycles, beeps, loaded, panic, frames >>

\* Call sites: the load offset, an address inside the program, the last
\* address a two-byte fetch can read.
SiteSamples == {LoadOffset, \h2FE, MemorySize - 2}

\* 2NNN with sampled targets, and 00EE.
CallOpcodes == { 2 * 4096 + nnn : nnn \in {0, \h204, \hFFF} } \cup {238}

InitCall ==
    /\ \E site \in SiteSamples : c = [NewCPU EXCEPT !.ProgramCounter = site]
    /\ pc = "ready"
    /\ Idle

NextCall == Call(CallOpcodes) \/ Again

\* Sequences of up to MaxCalls calls and returns dispatched one after the
\* other, from a machine whose program counter holds a sampled address.
SpecCall == InitCall /\ [][NextCall]_vars

\* ------------------------------------------------------- load, main, Run

ErrEOF == [kind |-> "EOF", Opcode |-> 0]

\* CPU.load(offset, r) for r a bytes.Reader over b, as LoadBytes makes it:
\* r.Read(c.Memory[offset:]) returns 0, io.EOF when b is empty, and otherwise
\* copies as many bytes as fit and returns their count and nil. The slice
\* expression panics when offset is beyond the array.
load(c0, offset, b) ==
    IF offset > MemorySize THEN [c |-> c0, n |-> 0, err |-> Panic]
    ELSE IF Len(b) = 0 THEN [c |-> c0, n |-> 0, err |-> ErrEOF]
    ELSE LET room == MemorySize - offset
             n == IF Len(b) < room THEN Len(b) ELSE room
         IN [ c |-> [c0 EXCEPT !.Memory =
                       [a \in 0..(MemorySize - 1) |->
                          IF a >= offset /\ a < offset + n THEN b[a - offset + 1]
                          ELSE c0.Memory[a]]],
              n |-> n,
              err |-> NoError ]

\* CPU.LoadBytes(b) = CPU.Load(bytes.NewReader(b)) = c.load(0x200, ...).
LoadBytes(c0, b) == load(c0, LoadOffset, b)

\* The bytes of a program given as 16-bit words, big-endian.
Assemble(words) ==
    [k \in 1..(2 * Len(words)) |->
       IF k % 2 = 1 THEN words[(k + 1) \div 2] \div 256 ELSE words[k \div 2] % 256]

\* The programs main is run on.
Programs ==
    { \* nested calls and returns, then a jump to itself
      Assemble(<< \h2206, \h2208, \h1204, \h2208, \h00EE >>),
      \* keys: skip if pressed, wait for key, skip if not pressed, unknown
      Assemble(<< \h6001, \hE09E, \hF10A, \hE1A1, \h00E0, \hFFFF >>),
      \* an 8XYn with no case, never left
      Assemble(<< \h6A01, \h8AB8 >>),
      \* timers and the cue
      Assemble(<< \h6002, \hF018, \hF015, \hF107, \h7001, \h3003, \h120C, \h9120 >>),
      \* return with nothing called
      Assemble(<< \h00EE >>),
      \* draw twice, random, unknown
      Assemble(<< \hA000, \hD015, \hD015, \hC10F, \h5120 >>),
      \* a call of itself
      Assemble(<< \h2200 >>),
      \* long timers, and a sound timer loaded with 1
      Assemble(<< \h60FF, \hF015, \hF018, \h6101, \hF118, \hF115 >>),
      \* a jump to the last byte of memory
      Assemble(<< \h1FFF >>),
      \* registers stored, decimal digits stored, a sprite read, at the end of memory
      Assemble(<< \hAFFE, \h8004, \hF255 >>),
      Assemble(<< \hAFFE, \hF033 >>),
      Assemble(<< \hAFFE, \hD003 >>) }

\* The number of instruction cycles Run is followed for.
MaxCycles == 17

\* The number of calls of Stop.
MaxStops == 2

\* main: the keypad is set, the program is loaded (main panics on a load
\* error), and Run is entered.
Main ==
    /\ pc = "new"
    /\ panic = ""
    /\ \E p \in Programs : \E k \in {"nil", "termbox"} :
         LET l == LoadBytes([c EXCEPT !.Keypad = k], p)
         IN /\ c' = l.c
            /\ loaded' = [calls |-> loaded.calls + 1, offset |-> LoadOffset, src |-> p,
                           n |-> l.n, err |-> l.err]
            /\ pc' = IF l.err = NoError THEN "select" ELSE "new"
            /\ panic' = IF l.err = NoError THEN "" ELSE "main: load failed"
    /\ UNCHANGED << opcode, err, key, rnd, runErr, stopClosed, stopCalls,
                    tickPending, cycles, beeps, frames >>

\* time.Tick: the ticker puts a tick into the Clock channel, which holds one;
\* a tick that finds the channel full is dropped.
ClockTick ==
    /\ panic = ""
    /\ pc \in {"new", "select", "getKey"}
    /\ ~tickPending
    /\ tickPending' = TRUE
    /\ UNCHANGED << c, pc, opcode, err, key, rnd, runErr, stopClosed, stopCalls,
                    cycles, beeps, loaded, panic, frames >>

\* CPU.Stop: close(c.stop). Closing a closed channel is a run-time panic,
\* which nothing recovers: it ends the process.
Stop ==
    /\ panic = ""
    /\ stopCalls < MaxStops
    /\ stopCalls' = stopCalls + 1
    /\ stopClosed' = TRUE
    /\ panic' = IF stopClosed THEN "close of closed channel" ELSE ""
    /\ UNCHANGED << c, pc, opcode, err, key, rnd, runErr, tickPending, cycles,
                    beeps, loaded, frames >>

\* CPU.Run, the select takes case <-c.stop: return nil.
RunStop ==
    /\ panic = ""
    /\ pc = "select"
    /\ stopClosed
    /\ pc' = "returned"
    /\ runErr' = NoError
    /\ UNCHANGED << c, opcode, err, key, rnd, stopClosed, stopCalls, tickPending,
                    cycles, beeps, loaded, panic, frames >>

\* The end of emulateCycle and of Run's case <-c.Clock, dispatch(op) having
\* taken the machine from c0 to outcome o.
FinishCycle(c0, op, o) ==
    /\ c' = AfterDispatch(o).c
    /\ err' = o.err
    /\ beeps' = beeps + (IF AfterDispatch(o).beep THEN 1 ELSE 0)
    /\ frames' = Frames(frames, c0, op, o)
    /\ panic' = IF o.err = Panic THEN "index out of range" ELSE ""
    /\ pc' = IF o.err \in {NoError, Panic} THEN "select" ELSE "returned"
    /\ runErr' = IF o.err \in {NoError, Panic} THEN runErr ELSE RunReturn(o.err)

\* CPU.Run, the select takes case <-c.Clock: emulateCycle. An opcode that
\* calls getKey runs up to that call; any other opcode runs to its end.
RunTick ==
    /\ panic = ""
    /\ pc = "select"
    /\ tickPending
    /\ cycles < MaxCycles
    /\ tickPending' = FALSE
    /\ LET d == decodeOp(c)
       IN IF d.panicked
          THEN /\ panic' = "index out of range"
               /\ UNCHANGED << c, pc, opcode, err, key, rnd, runErr, cycles, beeps,
                               frames >>
          ELSE /\ opcode' = d.opcode
               /\ cycles' = cycles + 1
               /\ IF CallsGetKey(d.opcode)
                  THEN /\ c' = IF BitAnd(d.opcode, 61440) = 57344 THEN Advance(c) ELSE c
                       /\ pc' = "getKey"
                       /\ UNCHANGED << err, key, rnd, runErr, beeps, panic, frames >>
                  ELSE /\ \E r \in RandInputs(d.opcode) :
                            /\ rnd' = r
                            /\ FinishCycle(c, d.opcode, dispatch(c, d.opcode, key, r))
                       /\ UNCHANGED key
    /\ UNCHANGED << stopClosed, stopCalls, loaded >>

\* dispatch from the return of the keypad's GetKey on, for the opcodes that
\* call getKey; c1 is the machine as the opcode left it before the call.
AfterKey(c1, op, kr) ==
    IF BitAnd(op, 61440) = 57344
    THEN IF BitAnd(op, 255) = 158 THEN OpEX9EAfterKey(c1, op, kr)
         ELSE OpEXA1AfterKey(c1, op, kr)
    ELSE OpFX0A(c1, op, kr)

\* The keypad's GetKey returns: NullKeypad at once, TermboxKeypad when
\* termbox.PollEvent delivers an event. The cycle then runs to its end.
KeyReturn ==
    /\ panic = ""
    /\ pc = "getKey"
    /\ \E ch \in (IF c.Keypad = "nil" THEN {"x"} ELSE EventChars) :
         /\ key' = GetKey(c, ch)
         /\ FinishCycle(c, opcode, AfterKey(c, opcode, GetKey(c, ch)))
    /\ UNCHANGED << opcode, rnd, stopClosed, stopCalls, tickPending, cycles, loaded >>

Init ==
    /\ c = NewCPU
    /\ pc = "new"
    /\ Idle

Next == Main \/ ClockTick \/ Stop \/ RunStop \/ RunTick \/ KeyReturn

\* main on a program of Programs, with the clock ticking and Stop called up
\* to MaxStops times at any moment.
Spec == Init /\ [][Next]_vars

\* NullKeypad.GetKey, which returns at once.
NullKeyReturn == c.Keypad = "nil" /\ KeyReturn

\* Spec with the clock ticking, Run's select taking the stop case if it is
\* ready again and again (Go chooses among the ready cases at random), and a
\* keypad call that needs no key event returning. Nothing makes a key event
\* arrive, and nothing makes Stop be called.
LiveSpec ==
    /\ Spec
    /\ WF_vars(ClockTick)
    /\ SF_vars(RunStop)
    /\ WF_vars(NullKeyReturn)

\* LiveSpec with key events that keep arriving, so that every call of the
\* terminal keypad returns.
LiveSpecKeys == LiveSpec /\ WF_vars(KeyReturn)

\* ------------------------------------------------- NewCPU and the loads

\* The zero value of the CPU struct, which NewCPU's composite literal starts
\* from.
ZeroCPU ==
    [NewCPU EXCEPT !.Memory = [a \in 0..(MemorySize - 1) |-> 0],
                   !.ProgramCounter = 0]

\* A *Options argument: nil, or a pointer to Options{ClockSpeed}.
NilOptions == [isNil |-> TRUE, ClockSpeed |-> 0]

OptionsOf(speed) == [isNil |-> FALSE, ClockSpeed |-> speed]

\* nil as the tests pass it, and ClockSpeed 60 as main passes it.
OptionSamples == {NilOptions, OptionsOf(60)}

\* NewCPU(options): the Clock field is time.Tick(time.Second /
\* options.ClockSpeed), evaluated before the machine exists; options.ClockSpeed
\* dereferences options, a run-time panic when it is nil, and the division
\* is a run-time panic when ClockSpeed is 0.
NewCPUOf(options) ==
    IF options.isNil THEN [c |-> ZeroCPU, panic |-> "nil pointer dereference"]
    ELSE IF options.ClockSpeed = 0 THEN [c |-> ZeroCPU, panic |-> "integer divide by zero"]
    ELSE [c |-> NewCPU, panic |-> ""]

\* The offsets load is called with: 0x300 as TestCPU_load does, and the last
\* byte and the end of memory.
LoadOffsets == {768, MemorySize - 1, MemorySize}

\* The bytes of a source of length len: none of them 0, and different for
\* different seeds.
SourceBytes(len, seed) == [k \in 1..len |-> ((7 * k + seed) % 255) + 1]

\* The sources loaded: empty, the two bytes of the tests, the largest that
\* fits at 0x200 and one byte more, and a one- and a three-byte source.
LoadSources ==
    { SourceBytes(len, 0) : len \in {0, 2, MemorySize - LoadOffset, MemorySize - LoadOffset + 1} }
    \cup { SourceBytes(len, 100) : len \in {1, 3} }

\* The number of load calls on one machine.
MaxLoads == 2

\* A call of NewCPU.
NewCall ==
    /\ pc = "start"
    /\ panic = ""
    /\ \E options \in OptionSamples :
         /\ c' = NewCPUOf(options).c
         /\ panic' = NewCPUOf(options).panic
         /\ pc' = IF NewCPUOf(options).panic = "" THEN "new" ELSE "start"
    /\ UNCHANGED << opcode, err, key, rnd, runErr, stopClosed, stopCalls,
                    tickPending, cycles, beeps, loaded, frames >>

\* The call returned l for the source b at offset.
Loaded(offset, b, l) ==
    /\ c' = l.c
    /\ loaded' = [calls |-> loaded.calls + 1, offset |-> offset, src |-> b,
                  n |-> l.n, err |-> l.err]
    /\ panic' = IF l.err = Panic THEN "slice bounds out of range" ELSE ""
    /\ UNCHANGED << pc, opcode, err, key, rnd, runErr, stopClosed, stopCalls,
                    tickPending, cycles, beeps, frames >>

\* A call of c.load(offset, bytes.NewReader(b)), as the package's tests make.
LoadCall ==
    /\ pc = "new"
    /\ panic = ""
    /\ loaded.calls < MaxLoads
    /\ \E offset \in LoadOffsets : \E b \in LoadSources :
         Loaded(offset, b, load(c, offset, b))

\* A call of c.LoadBytes(b), or of c.Load(bytes.NewReader(b)).
LoadBytesCall ==
    /\ pc = "new"
    /\ panic = ""
    /\ loaded.calls < MaxLoads
    /\ \E b \in LoadSources : Loaded(LoadOffset, b, LoadBytes(c, b))

InitLoad ==
    /\ c = ZeroCPU
    /\ pc = "start"
    /\ Idle

NextLoad == NewCall \/ LoadCall \/ LoadBytesCall

\* NewCPU is called, and up to MaxLoads sources are loaded into the machine
\* it returns.
SpecLoad == InitLoad /\ [][NextLoad]_vars

\* ---------------------------------------------------------------- claims

\* A direct call of dispatch just returned without panicking.
Dispatched == pc = "dispatched" /\ err # Panic

\* This step is a direct call of dispatch that returns without panicking.
DispatchStep == pc = "ready" /\ pc' = "dispatched" /\ err' # Panic

\* The opcodes the specification's table lists no pattern for: 0NNN other
\* than 00E0 and 00EE, 8XYn with n outside {0..7, E}, 9XYn with n # 0, EXnn
\* other than 9E and A1, FXnn outside {07, 0A, 15, 18, 1E, 29, 33, 55, 65}.
Unlisted(op) ==
    LET t == op \div 4096
        n == op % 16
        nn == op % 256
    IN \/ t = 0 /\ op \notin {224, 238}
       \/ t = 8 /\ n \notin (0..7) \cup {14}
       \/ t = 9 /\ n # 0
       \/ t = 14 /\ nn \notin {158, 161}
       \/ t = 15 /\ nn \notin {7, 10, 21, 24, 30, 41, 51, 85, 101}

\* C1: dispatch of an opcode that matches no listed pattern fails with
\* UnknownOpcode carrying that opcode; it never returns success.
C1_UnlistedFailsUnknown ==
    (Dispatched /\ Unlisted(opcode)) => err = UnknownOpcode(opcode)

\* C2: Stop is idempotent: no call of Stop, the second and later included,
\* panics.
C2_StopNeverPanics == panic # "close of closed channel"

\* This step is Run's select taking the clock case and starting a cycle.
CycleBegins == pc = "select" /\ cycles' = cycles + 1

\* C3: once Stop has been called with Run waiting in its select, no
\* instruction cycle begins, a pending clock tick notwithstanding.
C3_NoCycleAfterStop == [][ (pc = "select" /\ stopClosed) => ~CycleBegins ]_vars

\* This step ends a cycle of Run: dispatch returns, to emulateCycle and Run.
CycleEnds ==
    /\ panic' = ""
    /\ \/ pc = "select" /\ cycles' = cycles + 1 /\ pc' # "getKey"
       \/ pc = "getKey" /\ pc' # "getKey"

\* C4: when a cycle's dispatch returns ErrQuit (which only EX9E, EXA1 and
\* FX0A do) Run returns nil; when it returns any other error Run returns that
\* error, which is not nil; and once Run has returned no cycle is executed
\* and the machine does not change.
C4_RunOutcome ==
    [][ /\ (CycleEnds /\ err' = ErrQuit) =>
              (pc' = "returned" /\ runErr' = NoError /\ CallsGetKey(opcode'))
        /\ (CycleEnds /\ err' \notin {NoError, ErrQuit}) =>
              (pc' = "returned" /\ runErr' = err' /\ runErr' # NoError
                 /\ err'.kind \in {"UnknownOpcode", "KeypadError"})
        /\ (CycleEnds /\ err' = NoError) => pc' = "select"
        /\ pc = "returned" =>
              (pc' = "returned" /\ runErr' = runErr /\ cycles' = cycles /\ c' = c) ]_vars

\* C4 witness: the keypad signalled quit during FX0A and Run returned nil.
C4_Witness ==
    /\ pc = "returned"
    /\ err = ErrQuit
    /\ opcode = \hF10A
    /\ runErr = NoError
    /\ ~stopClosed

C6_SubFromOperandsBefore ==
    [][ (DispatchStep /\ opcode' \div 4096 = 8 /\ opcode' % 16 = 5
           /\ (opcode' \div 256) % 16 # 15) =>
          LET x == (opcode' \div 256) % 16
              y == (opcode' \div 16) % 16
              a == c.V[x]
              b == c.V[y]
          IN /\ c'.V[15] = (IF a > b THEN 1 ELSE 0)
             /\ c'.V[x] = (a - b) % 256 ]_vars

\* C7: after 5XY0, PC advanced by 4 if V[x] = V[y] and by 2 otherwise, y the
\* opcode's third nibble.
C7_SkipIfRegistersEqual ==
    [][ (DispatchStep /\ opcode' \div 4096 = 5) =>
          LET x == (opcode' \div 256) % 16
              y == (opcode' \div 16) % 16
          IN c'.ProgramCounter =
               c.ProgramCounter + (IF c.V[x] = c.V[y] THEN 4 ELSE 2) ]_vars

\* C8: after CXNN, V[x] is the random byte drawn AND NN, and PC advanced by 2.
C8_RandomMasked ==
    [][ (DispatchStep /\ opcode' \div 4096 = 12) =>
          /\ c'.V[(opcode' \div 256) % 16] = BitAnd(rnd', opcode' % 256)
          /\ c'.ProgramCounter = c.ProgramCounter + 2 ]_vars

\* C9: a return that closes a call made at PC = P leaves PC = P + 2 and the
\* stack pointer at its value before that call.
C9_CallReturnRoundTrip ==
    [][ (DispatchStep /\ opcode' = 238 /\ err' = NoError /\ frames # << >>) =>
          /\ c'.ProgramCounter = Head(frames).site + 2
          /\ c'.StackPointer = Head(frames).sp ]_vars

\* C9 witness: a call at 0x2FE, a nested call at 0x204 and its return have
\* been dispatched, and the return of the outer call has just left PC at
\* 0x300 and the stack pointer at 0.
C9_Witness ==
    /\ Dispatched
    /\ opcode = 238
    /\ err = NoError
    /\ cycles = 4
    /\ frames = << >>
    /\ c.ProgramCounter = \h300
    /\ c.StackPointer = 0

\* C10: after 00E0 every one of the 64 * 32 pixels is 0.
C10_ClearZeroesEveryPixel ==
    (Dispatched /\ opcode = 224) =>
        \A a \in 0..(GraphicsWidth * GraphicsHeight - 1) : c.Pixels[a] = 0

\* This step is a direct call of dispatch with a draw opcode (DXYN).
DrawStep == pc = "ready" /\ pc' = "dispatched" /\ opcode' \div 4096 = 13

\* C11: the draw opcode sets VF to 1 if and only if some pixel went from set
\* to unset during the write, and to 0 otherwise; sprite bits that are 0
\* written over set pixels change nothing and report no collision.
C11_CollisionIffPixelUnset ==
    [][ (DrawStep /\ err' = NoError) =>
          (c'.V[15] = 1 <=>
             \E a \in 0..(GraphicsWidth * GraphicsHeight - 1) :
                c.Pixels[a] = 1 /\ c'.Pixels[a] = 0) ]_vars

\* The pixels a sprite drawn by DXYN from machine c0 is to flip: bit xl of
\* row yl goes to column ((x mod 64) + xl) mod 64 of row ((y mod 32) + yl)
\* mod 32.
WrappedSpritePixels(c0, op) ==
    LET x == c0.V[(op \div 256) % 16]
        y == c0.V[(op \div 16) % 16]
        n == op % 16
    IN { (((x % GraphicsWidth) + xl) % GraphicsWidth)
           + (GraphicsWidth * (((y % GraphicsHeight) + yl) % GraphicsHeight)) :
         <<yl, xl>> \in { q \in (0..(n - 1)) \X (0..7) :
                           (c0.Memory[c0.I + q[1]] \div (2 ^ (7 - q[2]))) % 2 = 1 } }

\* C12: for every start coordinate in 0..255 the draw opcode XORs each sprite
\* bit into the pixel at the wrapped column and row, touching no pixel
\* outside the grid (no index panic).
C12_SpriteWrapsModulo ==
    [][ DrawStep =>
          /\ err' = NoError
          /\ LET flip == WrappedSpritePixels(c, opcode')
             IN \A a \in 0..(GraphicsWidth * GraphicsHeight - 1) :
                  c'.Pixels[a] = (IF a \in flip THEN 1 - c.Pixels[a] ELSE c.Pixels[a]) ]_vars

\* C13: every successful cycle takes 1 off the delay timer if it is nonzero
\* and 1 off the sound timer if it is nonzero, neither going below 0, the
\* timer's value being the one the cycle's instruction left (FX15 and FX18
\* load the timer before the decay); the cue is given in a cycle if and only
\* if the sound timer goes from 1 to 0 in it, and in no other step.
C13_TimersDecayCueOnce ==
    [][ /\ (CycleEnds /\ err' = NoError) =>
              LET x == (opcode' \div 256) % 16
                  d == IF opcode' \div 4096 = 15 /\ opcode' % 256 = 21
                       THEN c.V[x] ELSE c.DelayTimer
                  s == IF opcode' \div 4096 = 15 /\ opcode' % 256 = 24
                       THEN c.V[x] ELSE c.SoundTimer
              IN /\ c'.DelayTimer = (IF d > 0 THEN d - 1 ELSE 0)
                 /\ c'.SoundTimer = (IF s > 0 THEN s - 1 ELSE 0)
                 /\ (beeps' = beeps + 1) <=> (s = 1 /\ c'.SoundTimer = 0)
                 /\ beeps' \in {beeps, beeps + 1}
        /\ ~(CycleEnds /\ err' = NoError) =>
              /\ beeps' = beeps
              /\ c'.DelayTimer = c.DelayTimer
              /\ c'.SoundTimer = c.SoundTimer ]_vars

\* C13 witness: the sound timer went from 1 to 0 two cycles ago, the cue was
\* given once, and the cycles since, with the timer at 0, gave none.
C13_Witness ==
    /\ pc = "select"
    /\ opcode = \h7001
    /\ err = NoError
    /\ cycles = 5
    /\ beeps = 1
    /\ c.SoundTimer = 0
    /\ c.DelayTimer = 0

\* This step is a call of load, Load or LoadBytes that returns.
LoadStep == pc = "new" /\ loaded'.calls = loaded.calls + 1 /\ panic' = ""

\* The load that just returned wrote its whole source at its offset, returned
\* the source's length and no error, and changed no other byte of memory.
LoadedWhole ==
    /\ loaded'.err = NoError
    /\ loaded'.n = Len(loaded'.src)
    /\ \A a \in 0..(MemorySize - 1) :
         c'.Memory[a] =
            (IF a >= loaded'.offset /\ a < loaded'.offset + Len(loaded'.src)
             THEN loaded'.src[a - loaded'.offset + 1]
             ELSE c.Memory[a])

\* C14: a load of L bytes at offset O with O + L <= 4096 writes exactly those
\* bytes to memory[O, O+L) in order, returns L and no error, and leaves every
\* other byte of memory, the font included, as it was.
C14_LoadWritesSource ==
    [][ (LoadStep /\ loaded'.offset + Len(loaded'.src) <= MemorySize) => LoadedWhole ]_vars

\* A load of a source that is not empty and fits writes the whole source and
\* nothing else, and returns its length and no error.
LoadOfFittingBytes ==
    [][ (LoadStep /\ Len(loaded'.src) >= 1
           /\ loaded'.offset + Len(loaded'.src) <= MemorySize) => LoadedWhole ]_vars

\* A source that fills memory from 0x200 to its end was loaded over another
\* source.
LoadOfFittingBytesWitness ==
    /\ loaded.calls = 2
    /\ loaded.offset = LoadOffset
    /\ loaded.n = MemorySize - LoadOffset
    /\ loaded.err = NoError
    /\ c.Memory[MemorySize - 1] = loaded.src[MemorySize - LoadOffset]
    /\ c.Memory[0] = FONT[1]

\* C15: a load of a source longer than the memory from the offset to the end
\* of the 4096 bytes fails with an error; it never reports success with a
\* truncated program.
C15_LoadOverflowFails ==
    [][ (LoadStep /\ loaded'.offset + Len(loaded'.src) > MemorySize) =>
          loaded'.err # NoError ]_vars

\* This step is a call of NewCPU, returning or not.
NewStep == pc = "start" /\ (pc' = "new" \/ panic' # "")

\* C16: NewCPU, called with nil options too, returns a machine whose memory
\* holds the font table in its first 80 bytes and 0 everywhere else, and
\* whose program counter is 0x200.
C16_NewCPUFontAndPC ==
    [][ NewStep =>
          /\ panic' = ""
          /\ \A a \in 0..(MemorySize - 1) :
               c'.Memory[a] = (IF a < 80 THEN FONT[a + 1] ELSE 0)
          /\ c'.ProgramCounter = 512 ]_vars

\* C17: the stack holds 16 levels of nesting: a call (2NNN) made with fewer
\* than 16 calls open stores its return address inside the 16-entry stack,
\* so a call fails on the stack's bounds only with 16 calls already open.
C17_SixteenLevelsOfCalls ==
    (err = Panic /\ opcode \div 4096 = 2) => Len(frames) >= StackSize

\* C18: only FX0A waits for the keyboard: Run is inside a call of the
\* terminal keypad's GetKey, which returns when a key event arrives, only
\* during an FX0A.
C18_OnlyFX0AWaitsForKey ==
    (pc = "getKey" /\ c.Keypad = "termbox") =>
        (opcode \div 4096 = 15 /\ opcode % 256 = 10)

\* The memory accesses of the cycle that machine m is about to run are all
\* inside the array: the fetch at PC and PC + 1, the sprite read of DXYN, the
\* three digits of FX33, and the registers V0..VX of FX55 and FX65.
CycleAccessesInRange(m) ==
    /\ m.ProgramCounter + 1 <= MemorySize - 1
    /\ LET op == m.Memory[m.ProgramCounter] * 256 + m.Memory[m.ProgramCounter + 1]
           t == op \div 4096
           x == (op \div 256) % 16
           nn == op % 256
       IN /\ t = 13 => m.I + (op % 16) <= MemorySize
          /\ (t = 15 /\ nn = 51) => m.I + 2 <= MemorySize - 1
          /\ (t = 15 /\ nn \in {85, 101}) => m.I + x <= MemorySize - 1

\* C20: in every state reached by running a loaded program from 0x200, each
\* memory access of the next cycle is inside the 4096-byte array.
C20_MemoryAccessesInRange ==
    (pc = "select" /\ panic = "") => CycleAccessesInRange(c)

\* Stop has been called while Run is executing, in its select or inside a
\* keypad call.
StopRequested == stopClosed /\ pc \in {"select", "getKey"} /\ panic = ""

\* Run has returned, or a panic has ended the process.
RunOver == pc = "returned" \/ panic # ""

\* C19: whenever Stop is called while Run is executing, in its select or
\* inside a keypad call for FX0A, EX9E or EXA1 with no key ever pressed, Run
\* eventually returns.
C19_StopMakesRunReturn == StopRequested ~> RunOver

\* With key events that keep arriving, Run returns after Stop.
StopReturnsGivenKeys == StopRequested ~> RunOver

====
